---- MODULE Spec2Model ----
(***************************************************************************)
(* The serial command/response transaction of SerialController             *)
(* (serial_controller.py) together with the device on the other end of the *)
(* link, and the three entry-point programs that own the connection.       *)
(*                                                                         *)
(* Text is a sequence of one-character strings.  A line on the wire is its *)
(* text followed by "\n"; the input buffer holds the segments the device   *)
(* has delivered, the last of which may still lack its terminator.         *)
(***************************************************************************)
EXTENDS Integers, Sequences, FiniteSets, TLC

(***************************************************************************)
(* Bounds of the model.                                                    *)
(***************************************************************************)
\* lines the device sends in one run
MaxLines == 2
\* tool calls the language model asks for on one input
MaxActs == 2

(***************************************************************************)
(* Text: str.strip(), str.lower(), encode and decode.                      *)
(***************************************************************************)
\* the characters str.strip() removes
Whitespace == {" ", "\r", "\t"}

\* upper-case / lower-case pairs of the letters that occur
CasePairs ==
    { <<"L", "l">>, <<"E", "e">>, <<"D", "d">>, <<"O", "o">>, <<"N", "n">>,
      <<"F", "f">>, <<"S", "s">>, <<"T", "t">>, <<"A", "a">>, <<"U", "u">>,
      <<"K", "k">> }

LowerCh(c) ==
    IF \E p \in CasePairs : p[1] = c
    THEN (CHOOSE p \in CasePairs : p[1] = c)[2]
    ELSE c

UpperCh(c) ==
    IF \E p \in CasePairs : p[2] = c
    THEN (CHOOSE p \in CasePairs : p[2] = c)[1]
    ELSE c

\* str.lower()
Lower(s) == [i \in 1..Len(s) |-> LowerCh(s[i])]

\* the device shouting a text back (str.upper() on the far side)
Upper(s) == [i \in 1..Len(s) |-> UpperCh(s[i])]

RECURSIVE LStrip(_)
LStrip(s) == IF s # <<>> /\ Head(s) \in Whitespace THEN LStrip(Tail(s)) ELSE s

RECURSIVE RStrip(_)
RStrip(s) ==
    IF s # <<>> /\ s[Len(s)] \in Whitespace
    THEN RStrip(SubSeq(s, 1, Len(s) - 1))
    ELSE s

\* str.strip()
Strip(s) == RStrip(LStrip(s))

\* a lone surrogate: a character str.encode('utf-8') rejects
Surrogate == "U+D800"
\* a byte bytes.decode('utf-8') rejects
BadByte == "0xFF"

\* (command + '\n').encode('utf-8') succeeds
Encodable(s) == \A i \in 1..Len(s) : s[i] # Surrogate
\* readline().decode('utf-8') succeeds
Decodable(s) == \A i \in 1..Len(s) : s[i] # BadByte

(***************************************************************************)
(* Commands and device lines.                                              *)
(***************************************************************************)
LED_ON == <<"l", "e", "d", " ", "o", "n">>
LED_OFF == <<"l", "e", "d", " ", "o", "f", "f">>
STATUS == <<"s", "t", "a", "t", "u", "s">>

\* what a caller may hand to send_command directly: a facade literal, the
\* same with a trailing blank, and a text that cannot be encoded
Commands == { LED_ON, LED_ON \o <<" ">>, <<"o", "n", Surrogate>> }

\* Optional values: None, or a value wrapped in a one-element sequence
None == <<>>
Some(v) == <<v>>

\* the prompt characters the filter knows
Prompts == { <<">">>, <<"$">>, <<"#">> }

\* The lines a device may send after it received command c: the echo, the
\* echo in capitals, an answer ended by CR LF, a bare prompt, a one-character
\* answer, an empty line, a line of invalid UTF-8.
DeviceLines(c) ==
    { c, Upper(c), <<"O", "K", "\r">>, <<"1">>, <<>>, <<BadByte>> } \cup Prompts

\* Where the device may pause inside a line of text l, as the number of
\* characters sent before the pause: before the last character.
SplitPoints(l) == {Len(l) - 1} \cap (1..Len(l))

(***************************************************************************)
(* State.                                                                  *)
(***************************************************************************)
VARIABLES
    is_open,     \* serial_port.is_open
    inbuf,       \* the port's input buffer: segments delivered and not yet read
    outbuf,      \* the port's output buffer: commands written and not yet sent
    devcmd,      \* the last command the device received
    nlines,      \* lines the device has sent so far
    devrest,     \* None, or Some(the rest of a line the device has sent part of)
    devfresh,    \* devcmd is the command of the call in progress (or the last)
    pc,          \* where send_command is: idle, settle, drain, fbwait, done
    command,     \* send_command's argument
    responses,   \* send_command's list of drained lines
    writes,      \* serial_port.write calls made by the call
    nstale,      \* segments that sat unread in the buffer when the call began
    ret,         \* what the last send_command returned: None or Some(text)
    outcome,     \* how it ended: pending, content, delayed, none, error
    ret_src,     \* the segment the returned text was read from
    rx,          \* what the device delivered during a free caller's call, with
                 \* the phase each segment began and ended in
    last_close,  \* what the last close() call did: none, closed, noop
    closed_by,   \* close() calls that closed the port
    prog,        \* the caller: api (a free caller), main, simple, ai
    controller,  \* the caller's controller reference: None or Some(Controller)
    ppc,         \* where the calling program is
    acts,        \* send_command calls made for the input being handled (0 at the
                 \* prompt)
    ended        \* how the program ended: no, return, SystemExit,
                 \* KeyboardInterrupt, exception

link == <<is_open, inbuf, outbuf>>
device == <<devcmd, nlines, devrest, devfresh>>
locals == <<command, responses, writes, nstale>>
result == <<ret, outcome, ret_src>>
closing == <<last_close, closed_by>>
progv == <<prog, controller, ppc, acts, ended>>
vars == <<is_open, inbuf, outbuf, devcmd, nlines, devrest, devfresh, pc,
          command, responses, writes, nstale, ret, outcome, ret_src, rx,
          last_close, closed_by, prog, controller, ppc, acts, ended>>

\* a segment of the input buffer: text, whether its "\n" has arrived, whether
\* it starts at the start of a device line, whether it was in the buffer when
\* the call began (old), whether it answers an earlier command (late)
Seg(text, nl, whole, late) ==
    [text |-> text, nl |-> nl, whole |-> whole, old |-> FALSE, late |-> late]

NoSeg == [text |-> <<>>, nl |-> FALSE, whole |-> FALSE, old |-> FALSE, late |-> FALSE]

\* bytes arriving at the port: they extend an unterminated last segment
Deliver(buf, chars, nl, whole, late) ==
    IF buf # <<>> /\ ~buf[Len(buf)].nl
    THEN [buf EXCEPT ![Len(buf)] = [@ EXCEPT !.text = @ \o chars, !.nl = nl]]
    ELSE Append(buf, Seg(chars, nl, whole, late))

\* the same arrival in the call's record, stamped with the phase
Record(log, chars, nl, whole, late, phase) ==
    IF phase = "idle" THEN log
    ELSE IF log # <<>> /\ ~log[Len(log)].nl
    THEN [log EXCEPT ![Len(log)] =
              [@ EXCEPT !.text = @ \o chars, !.nl = nl, !.p2 = phase,
                        !.pieces = @ + 1]]
    ELSE Append(log, [text |-> chars, nl |-> nl, whole |-> whole,
                      late |-> late, p1 |-> phase, p2 |-> phase,
                      pieces |-> 1])

\* the phase arrivals are recorded under: a free caller's call in progress
Phase == IF prog = "api" THEN pc ELSE "idle"

Rest ==
    /\ inbuf = <<>>
    /\ outbuf = <<>>
    /\ devcmd = <<>>
    /\ nlines = 0
    /\ devrest = None
    /\ devfresh = FALSE
    /\ pc = "idle"
    /\ command = <<>>
    /\ responses = <<>>
    /\ writes = 0
    /\ nstale = 0
    /\ ret = None
    /\ outcome = "pending"
    /\ ret_src = NoSeg
    /\ rx = <<>>
    /\ last_close = "none"
    /\ closed_by = 0
    /\ acts = 0
    /\ ended = "no"

\* the value of a controller reference once a SerialController is assigned
Constructed == Some("SerialController")

\* a SerialController has been constructed and handed to a free caller
Init ==
    /\ is_open = TRUE
    /\ controller = Constructed
    /\ prog = "api"
    /\ ppc = "api"
    /\ Rest

(***************************************************************************)
(* The device and the wire.                                                *)
(***************************************************************************)
\* the UART sends the oldest written command; the device starts to answer it
Transmit ==
    /\ is_open
    /\ pc # "done"
    /\ outbuf # <<>>
    /\ outbuf' = Tail(outbuf)
    /\ devcmd' = Head(outbuf)
    /\ devfresh' = TRUE
    /\ UNCHANGED <<is_open, inbuf, nlines, devrest, pc, locals, result, rx,
                   closing, progv>>

\* the device sends one whole line
EmitLine ==
    /\ is_open
    /\ pc # "done"
    /\ devrest = None
    /\ devcmd # <<>>
    /\ nlines < MaxLines
    /\ \E l \in DeviceLines(devcmd) :
        /\ inbuf' = Deliver(inbuf, l, TRUE, TRUE, ~devfresh)
        /\ rx' = Record(rx, l, TRUE, TRUE, ~devfresh, Phase)
    /\ nlines' = nlines + 1
    /\ UNCHANGED <<is_open, outbuf, devcmd, devrest, devfresh, pc, locals,
                   result, closing, progv>>

\* the device sends the first k characters of a line and pauses
EmitPart ==
    /\ is_open
    /\ pc # "done"
    /\ devrest = None
    /\ devcmd # <<>>
    /\ nlines < MaxLines
    /\ \E l \in DeviceLines(devcmd) : \E k \in SplitPoints(l) :
        /\ inbuf' = Deliver(inbuf, SubSeq(l, 1, k), FALSE, TRUE, ~devfresh)
        /\ rx' = Record(rx, SubSeq(l, 1, k), FALSE, TRUE, ~devfresh, Phase)
        /\ devrest' = Some([text |-> SubSeq(l, k + 1, Len(l)), late |-> ~devfresh])
    /\ nlines' = nlines + 1
    /\ UNCHANGED <<is_open, outbuf, devcmd, devfresh, pc, locals, result,
                   closing, progv>>

\* the device sends the rest of the line and its "\n"
EmitRest ==
    /\ is_open
    /\ pc # "done"
    /\ devrest # None
    /\ inbuf' = Deliver(inbuf, devrest[1].text, TRUE, FALSE, devrest[1].late)
    /\ rx' = Record(rx, devrest[1].text, TRUE, FALSE, devrest[1].late, Phase)
    /\ devrest' = None
    /\ UNCHANGED <<is_open, outbuf, devcmd, nlines, devfresh, pc, locals,
                   result, closing, progv>>

(***************************************************************************)
(* SerialController.send_command                                           *)
(***************************************************************************)
\* a flush that discards nothing
FlushInputKeeps(buf) == buf

\* serial_port.flushInput(): the unread bytes are discarded
FlushInput(buf) == <<>>

\* serial_port.flushOutput(): the unsent bytes are discarded
FlushOutput(buf) == <<>>

\* serial_port.write(command_bytes)
Write(buf, c) == Append(buf, c)

\* a filter test that skips the echo only
IsContentNotEcho(response, c) == Lower(response) # Lower(c)

\* the filter's test: not the echo, not a prompt character, longer than one
IsContent(response, c) ==
    /\ Lower(response) # Lower(c)
    /\ response \notin Prompts
    /\ Len(response) > 1

\* a filter that returns the last response passing the test
LastContent(rs, c) ==
    IF \E i \in 1..Len(rs) : IsContent(rs[i].text, c)
    THEN CHOOSE i \in 1..Len(rs) :
            /\ IsContent(rs[i].text, c)
            /\ \A j \in (i + 1)..Len(rs) : ~IsContent(rs[j].text, c)
    ELSE 0

\* index of the first response the filter returns, 0 when it returns none
FirstContent(rs, c) ==
    IF \E i \in 1..Len(rs) : IsContent(rs[i].text, c)
    THEN CHOOSE i \in 1..Len(rs) :
            /\ IsContent(rs[i].text, c)
            /\ \A j \in 1..(i - 1) : ~IsContent(rs[j].text, c)
    ELSE 0

\* the condition of the delayed read
WantsDelayedRead(rs, c) == Len(rs) >= 1 /\ Lower(rs[1].text) = Lower(c)

\* a delayed read that applies the filter's length test as well
DelayedOkLong(actual_response) ==
    /\ actual_response # <<>>
    /\ actual_response \notin Prompts
    /\ Len(actual_response) > 2

\* the test the delayed read applies to its line
DelayedOk(actual_response) ==
    actual_response # <<>> /\ actual_response \notin Prompts

\* a delayed read that writes the command once more
Retry ==
    /\ outbuf' = Write(outbuf, command)
    /\ writes' = writes + 1

\* after the filter found nothing the command is not written again
NoRetry == UNCHANGED <<outbuf, writes>>

\* send_command reaches a return statement with value r
Finish(r, src, how) ==
    /\ pc' = "done"
    /\ ret' = r
    /\ ret_src' = src
    /\ outcome' = how

\* the except clause: print and return None
Fail == Finish(None, NoSeg, "error")

\* the segments of the buffer as they are when a call begins
Aged(buf) == [i \in 1..Len(buf) |-> [buf[i] EXCEPT !.old = TRUE]]

\* the segment a read took, with the text as stripped
Stripped(seg) == [seg EXCEPT !.text = Strip(seg.text)]

\* send_command up to the settle wait: flush, encode, write
Begin(c) ==
    /\ pc = "idle"
    /\ command' = c
    /\ responses' = <<>>
    /\ rx' = <<>>
    /\ nstale' = Len(inbuf)
    /\ devfresh' = FALSE
    /\ devrest' = IF devrest = None THEN None
                  ELSE Some([devrest[1] EXCEPT !.late = TRUE])
    /\ IF ~is_open
       THEN \* flushInput raises: the port is not open
            /\ Fail
            /\ writes' = 0
            /\ UNCHANGED <<inbuf, outbuf>>
       ELSE IF ~Encodable(c)
       THEN \* encode raises after the flush
            /\ Fail
            /\ writes' = 0
            /\ inbuf' = FlushInput(Aged(inbuf))
            /\ outbuf' = FlushOutput(outbuf)
       ELSE /\ inbuf' = FlushInput(Aged(inbuf))
            /\ outbuf' = Write(FlushOutput(outbuf), c)
            /\ writes' = 1
            /\ pc' = "settle"
            /\ ret' = None
            /\ ret_src' = NoSeg
            /\ outcome' = "pending"
    /\ UNCHANGED <<is_open, devcmd, nlines, closing>>

\* time.sleep(0.2) is over
SettleDone ==
    /\ pc = "settle"
    /\ pc' = "drain"
    /\ UNCHANGED <<link, device, locals, result, rx, closing, progv>>

\* one turn of the drain loop: in_waiting > 0, readline, decode, strip.
\* readline returns the first segment: a whole line, or, when the read
\* timeout ends the wait for its "\n", what has arrived of it.
Drain ==
    /\ pc = "drain"
    /\ inbuf # <<>>
    /\ inbuf' = Tail(inbuf)
    /\ IF ~Decodable(Head(inbuf).text)
       THEN /\ Fail
            /\ UNCHANGED responses
       ELSE /\ responses' = IF Strip(Head(inbuf).text) # <<>>
                            THEN Append(responses, Stripped(Head(inbuf)))
                            ELSE responses
            /\ UNCHANGED <<pc, result>>
    /\ UNCHANGED <<is_open, outbuf, device, command, writes, nstale, rx,
                   closing, progv>>

\* the buffer is empty: the filter loop, then the delayed-read condition
Filter ==
    /\ pc = "drain"
    /\ inbuf = <<>>
    /\ IF FirstContent(responses, command) > 0
       THEN Finish(Some(responses[FirstContent(responses, command)].text),
                   responses[FirstContent(responses, command)], "content")
       ELSE IF WantsDelayedRead(responses, command)
       THEN /\ pc' = "fbwait"
            /\ UNCHANGED result
       ELSE Finish(None, NoSeg, "none")
    /\ UNCHANGED <<link, device, locals, rx, closing, progv>>

\* time.sleep(0.1) is over: in_waiting, one readline, its test
DelayedRead ==
    /\ pc = "fbwait"
    /\ IF inbuf = <<>>
       THEN /\ Finish(None, NoSeg, "none")
            /\ UNCHANGED inbuf
       ELSE /\ inbuf' = Tail(inbuf)
            /\ IF ~Decodable(Head(inbuf).text)
               THEN Fail
               ELSE IF DelayedOk(Strip(Head(inbuf).text))
               THEN Finish(Some(Strip(Head(inbuf).text)), Stripped(Head(inbuf)),
                           "delayed")
               ELSE Finish(None, NoSeg, "none")
    /\ NoRetry
    /\ UNCHANGED <<is_open, device, command, responses, nstale, rx, closing,
                   progv>>

\* in_waiting or readline raises (an I/O error on the link)
IOError ==
    /\ pc \in {"drain", "fbwait"}
    /\ Fail
    /\ UNCHANGED <<link, device, locals, rx, closing, progv>>

\* where the calling program goes on when a facade call returns
Resume(at) ==
    CASE at = "script1" -> "script2"
      [] at = "script2" -> "script3"
      [] at = "script3" -> "prompt"
      [] at = "turn" -> "prompt"
      [] at = "action" -> "agent"
      [] OTHER -> at

\* the call returns to its caller: its locals are gone, the value is handed over
Return ==
    /\ pc = "done"
    /\ pc' = "idle"
    /\ command' = <<>>
    /\ responses' = <<>>
    /\ writes' = 0
    /\ nstale' = 0
    /\ rx' = <<>>
    /\ ret_src' = NoSeg
    /\ ret' = None
    /\ outcome' = "pending"
    /\ ppc' = Resume(ppc)
    /\ acts' = IF Resume(ppc) = "prompt" THEN 0 ELSE acts
    /\ UNCHANGED <<link, device, closing, prog, controller, ended>>

(***************************************************************************)
(* The facade and close                                                    *)
(***************************************************************************)
led_on == Begin(LED_ON)

\* a led_off that sends the text of led_on
led_offAsOn == Begin(LED_ON)

led_off == Begin(LED_OFF)

get_status == Begin(STATUS)

\* a close without the is_open guard
closeUnguarded ==
    /\ is_open' = FALSE
    /\ inbuf' = <<>>
    /\ outbuf' = <<>>
    /\ closed_by' = closed_by + 1
    /\ last_close' = "closed"

\* SerialController.close
close ==
    IF is_open
    THEN /\ is_open' = FALSE
         /\ inbuf' = <<>>
         /\ outbuf' = <<>>
         /\ closed_by' = closed_by + 1
         /\ last_close' = "closed"
    ELSE /\ last_close' = "noop"
         /\ UNCHANGED <<is_open, inbuf, outbuf, closed_by>>

\* send_command called by a free caller with its own text
Send ==
    /\ prog = "api"
    /\ \E c \in Commands : Begin(c)
    /\ UNCHANGED progv

\* close() called by a free caller between two commands
Close ==
    /\ prog = "api"
    /\ pc = "idle"
    /\ close
    /\ UNCHANGED <<device, pc, locals, result, rx, progv>>

Next ==
    \/ Transmit
    \/ EmitLine
    \/ EmitPart
    \/ EmitRest
    \/ Send
    \/ SettleDone
    \/ Drain
    \/ Filter
    \/ DelayedRead
    \/ IOError
    \/ Return
    \/ Close

Spec == Init /\ [][Next]_vars

(***************************************************************************)
(* The entry-point programs: main.py, simple_ai_agent.py, ai_agent.py      *)
(***************************************************************************)
Programs == {"main", "simple", "ai"}

\* a program starts: no connection yet, the controller reference is None
InitProg ==
    /\ is_open = FALSE
    /\ controller = None
    /\ prog \in Programs
    /\ ppc = "start"
    /\ Rest

\* the places of each program that lie inside its try ... finally
InTry ==
    CASE prog = "main" -> {"script1", "script2", "script3", "prompt", "turn"}
      [] prog = "simple" -> {"prompt", "turn", "respond"}
      [] prog = "ai" -> {"agentinit", "prompt", "agent", "action", "respond"}
      [] OTHER -> {}

\* the places after serial.Serial(...) opened the port and before the try
BeforeTry ==
    CASE prog = "main" -> {"ctor"}
      [] prog = "simple" -> {"ctor", "banner"}
      [] prog = "ai" -> {"ctor", "modelprompt"}
      [] OTHER -> {}

\* SerialController.__init__: serial.Serial(...) opens the port
OpenOk ==
    /\ ppc = "start"
    /\ is_open' = TRUE
    /\ ppc' = "ctor"
    /\ UNCHANGED <<inbuf, outbuf, device, pc, locals, result, rx, closing,
                   prog, controller, acts, ended>>

\* SerialController.__init__: SerialException, print, sys.exit(1)
OpenFail ==
    /\ ppc = "start"
    /\ ppc' = "exit"
    /\ ended' = "SystemExit"
    /\ UNCHANGED <<link, device, pc, locals, result, rx, closing, prog,
                   controller, acts>>

\* time.sleep(2) in the constructor is over, the constructor returns and the
\* new SerialController is assigned to the controller reference
CtorDone ==
    /\ ppc = "ctor"
    /\ controller' = Constructed
    /\ ppc' = CASE prog = "main" -> "script1"
                [] prog = "simple" -> "banner"
                [] OTHER -> "modelprompt"
    /\ UNCHANGED <<link, device, pc, locals, result, rx, closing, prog,
                   acts, ended>>

\* simple_ai_agent.main: the lines printed between initialize_serial and try
BannerDone ==
    /\ prog = "simple"
    /\ ppc = "banner"
    /\ ppc' = "prompt"
    /\ UNCHANGED <<link, device, pc, locals, result, rx, closing, prog,
                   controller, acts, ended>>

\* ai_agent.main: input("Enter Ollama model ...") answered
ModelPrompt ==
    /\ prog = "ai"
    /\ ppc = "modelprompt"
    /\ ppc' = "agentinit"
    /\ UNCHANGED <<link, device, pc, locals, result, rx, closing, prog,
                   controller, acts, ended>>

\* ai_agent.main: AIAgent(model_name) inside the try; it may raise
AgentInit ==
    /\ prog = "ai"
    /\ ppc = "agentinit"
    /\ \/ ppc' = "prompt" /\ UNCHANGED ended
       \/ ppc' = "finally" /\ ended' = "return"
    /\ UNCHANGED <<link, device, pc, locals, result, rx, closing, prog,
                   controller, acts>>

\* main.py: the three scripted facade calls
MainScript ==
    /\ prog = "main"
    /\ \/ ppc = "script1" /\ led_on
       \/ ppc = "script2" /\ led_off
       \/ ppc = "script3" /\ get_status
    /\ UNCHANGED progv

\* main.py: one input at "Enter command: "
MainTurn ==
    /\ prog = "main"
    /\ ppc = "prompt"
    /\ \/ \* quit
          /\ ppc' = "finally"
          /\ ended' = "return"
          /\ UNCHANGED <<link, device, pc, locals, result, rx, closing, acts>>
       \/ \* led on, led off, status
          /\ acts' = 1
          /\ ppc' = "turn"
          /\ (led_on \/ led_off \/ get_status)
          /\ UNCHANGED ended
       \/ \* anything else: "Invalid command", continue
          /\ acts' = 0
          /\ UNCHANGED <<link, device, pc, locals, result, rx, closing, ppc,
                         ended>>
    /\ UNCHANGED <<prog, controller>>

\* what parse_intent can return: the model's text stripped and upper-cased,
\* or UNKNOWN when the model call raises
Intents == {"LED_ON", "LED_OFF", "STATUS", "UNKNOWN", "OTHER"}

\* a dispatch operation that returns without calling the facade
NoFacadeCall == UNCHANGED <<link, device, pc, locals, result, rx, closing>>

\* an execute_command whose else branch asks the device for its status
execute_commandAsks(intent) ==
    IF controller = None
    THEN acts' = 0 /\ ppc' = "not_initialized" /\ NoFacadeCall
    ELSE CASE intent = "LED_ON" -> led_on /\ ppc' = "turn" /\ acts' = 1
           [] intent = "LED_OFF" -> led_off /\ ppc' = "turn" /\ acts' = 1
           [] OTHER -> get_status /\ ppc' = "respond" /\ acts' = 1

\* SimpleAIAgent.execute_command: with no controller it returns
\* "Serial connection not initialized"; else the facade call of the intent,
\* or "I didn't understand that"
execute_command(intent) ==
    IF controller = None
    THEN acts' = 0 /\ ppc' = "not_initialized" /\ NoFacadeCall
    ELSE CASE intent = "LED_ON" -> led_on /\ ppc' = "turn" /\ acts' = 1
           [] intent = "LED_OFF" -> led_off /\ ppc' = "turn" /\ acts' = 1
           [] intent = "STATUS" -> get_status /\ ppc' = "turn" /\ acts' = 1
           [] OTHER -> acts' = 0 /\ ppc' = "respond" /\ NoFacadeCall

\* simple_ai_agent.main: one input at the prompt, and agent.chat on it
SimpleTurn ==
    /\ prog = "simple"
    /\ ppc = "prompt"
    /\ \/ \* quit, exit, bye
          /\ ppc' = "finally"
          /\ ended' = "return"
          /\ UNCHANGED <<link, device, pc, locals, result, rx, closing, acts>>
       \/ \* chat: parse_intent, execute_command, generate_response
          /\ \E intent \in Intents : execute_command(intent)
          /\ UNCHANGED ended
    /\ UNCHANGED <<prog, controller>>

\* ai_agent.main: one input at the prompt; agent.chat starts the graph
AiTurn ==
    /\ prog = "ai"
    /\ ppc = "prompt"
    /\ \/ \* quit, exit, bye
          /\ ppc' = "finally"
          /\ ended' = "return"
          /\ UNCHANGED acts
       \/ \* chat: the graph is entered at its agent node
          /\ acts' = 0
          /\ ppc' = "agent"
          /\ UNCHANGED ended
    /\ UNCHANGED <<link, device, pc, locals, result, rx, closing, prog,
                   controller>>

\* tools that call the facade whatever the controller reference is
ToolCallUnchecked(tool) ==
    CASE tool = "turn_led_on" -> led_on
      [] tool = "turn_led_off" -> led_off
      [] OTHER -> get_status

\* the tools of the graph: with no controller each returns
\* "Error: Serial connection not initialized", else it makes its facade call
ToolCall(tool) ==
    IF controller = None
    THEN NoFacadeCall
    ELSE CASE tool = "turn_led_on" -> led_on
           [] tool = "turn_led_off" -> led_off
           [] OTHER -> get_status

Tools == {"turn_led_on", "turn_led_off", "get_device_status"}

\* What the language model can answer, by what extract_tool_call looks for:
\* whether the text holds "tool_call:", which tool name it holds, and which
\* of the fallback phrases (with "led" for on and off) it holds.
Contents ==
    [ marker : {TRUE},
      name : Tools \cup {"none"},
      phrase : {"on", "status", "none"} ]
    \cup [ marker : {FALSE}, name : {"none"}, phrase : {"off", "none"} ]

\* AIAgent.extract_tool_call: the tool named after the marker, else the
\* tool of the first fallback phrase, else none
extract_tool_call(content) ==
    IF content.marker /\ content.name \in Tools THEN content.name
    ELSE IF content.phrase = "on" THEN "turn_led_on"
    ELSE IF content.phrase = "off" THEN "turn_led_off"
    ELSE IF content.phrase = "status" THEN "get_device_status"
    ELSE "none"

\* the agent node: call_model, should_continue, and on "continue" call_tool
AiAgent ==
    /\ prog = "ai"
    /\ ppc = "agent"
    /\ pc = "idle"
    /\ \/ \* ollama.chat raised: a message without a tool call, END
          /\ ppc' = "respond"
          /\ UNCHANGED <<link, device, pc, locals, result, rx, closing, acts>>
       \/ \E content \in Contents :
            IF extract_tool_call(content) = "none"
            THEN \* no tool call in the model's text: END
                 /\ ppc' = "respond"
                 /\ UNCHANGED <<link, device, pc, locals, result, rx, closing,
                                acts>>
            ELSE \* a tool call: the action node runs the tool
                 \* (a tool that returned at once hands its text back
                 \* to the agent node)
                 /\ acts < MaxActs
                 /\ acts' = IF controller = None THEN acts ELSE acts + 1
                 /\ ppc' = IF controller = None THEN "agent" ELSE "action"
                 /\ ToolCall(extract_tool_call(content))
    /\ UNCHANGED <<prog, controller, ended>>

\* the turn ends without a (further) facade call: chat returns its text,
\* the loop prints it and asks for the next input
Respond ==
    /\ ppc = "respond"
    /\ ppc' = "prompt"
    /\ acts' = 0
    /\ UNCHANGED <<link, device, pc, locals, result, rx, closing, prog,
                   controller, ended>>

\* KeyboardInterrupt: inside the try it is caught and the finally clause
\* runs; before the try it ends the program
Interrupt ==
    /\ ppc \in InTry \cup BeforeTry
    /\ IF ppc \in InTry
       THEN /\ ppc' = "finally"
            /\ ended' = "return"
       ELSE /\ ppc' = "exit"
            /\ ended' = "KeyboardInterrupt"
    /\ pc' = "idle"
    /\ command' = <<>>
    /\ responses' = <<>>
    /\ writes' = 0
    /\ nstale' = 0
    /\ ret_src' = NoSeg
    /\ ret' = None
    /\ outcome' = "pending"
    /\ acts' = 0
    /\ UNCHANGED <<link, device, rx, closing, prog, controller>>

\* the finally clause: controller.close() / agent.close(), the agents' one
\* guarded by the controller reference
Finally ==
    /\ ppc = "finally"
    /\ IF controller # None THEN close ELSE UNCHANGED <<link, closing>>
    /\ ppc' = "exit"
    /\ UNCHANGED <<device, pc, locals, result, rx, prog, controller, acts,
                   ended>>

NextProg ==
    \/ Transmit
    \/ EmitLine
    \/ EmitPart
    \/ EmitRest
    \/ SettleDone
    \/ Drain
    \/ Filter
    \/ DelayedRead
    \/ IOError
    \/ Return
    \/ OpenOk
    \/ OpenFail
    \/ CtorDone
    \/ BannerDone
    \/ ModelPrompt
    \/ AgentInit
    \/ MainScript
    \/ MainTurn
    \/ SimpleTurn
    \/ AiTurn
    \/ AiAgent
    \/ Respond
    \/ Interrupt
    \/ Finally

ProgSpec == InitProg /\ [][NextProg]_vars

(***************************************************************************)
(* A caller that only calls send_command, and a device that never stops    *)
(* sending: the setting for termination.                                   *)
(***************************************************************************)
\* a SerialController has been constructed; no record of arrivals is kept
InitLive ==
    /\ is_open = TRUE
    /\ controller = Constructed
    /\ prog = "caller"
    /\ ppc = "caller"
    /\ Rest

\* send_command called with one of the facade's texts
Call ==
    /\ prog = "caller"
    /\ \E c \in {LED_ON, LED_OFF, STATUS} : Begin(c)
    /\ UNCHANGED progv

\* the device goes on sending: one more empty line reaches the port while
\* the drain loop runs, whatever the device has sent before
Chatter ==
    /\ is_open
    /\ pc = "drain"
    /\ devrest = None
    /\ devcmd # <<>>
    /\ inbuf = <<>>
    /\ inbuf' = Deliver(inbuf, <<>>, TRUE, TRUE, ~devfresh)
    /\ UNCHANGED <<is_open, outbuf, device, pc, locals, result, rx, closing,
                   progv>>

NextLive ==
    \/ Transmit
    \/ EmitLine
    \/ EmitPart
    \/ EmitRest
    \/ Chatter
    \/ Call
    \/ SettleDone
    \/ Drain
    \/ Filter
    \/ DelayedRead
    \/ IOError
    \/ Return

\* the steps of send_command are taken when they can be: a sleep ends, a
\* read returns a line or times out, the filter runs, the call returns
LiveSpec ==
    /\ InitLive
    /\ [][NextLive]_vars
    /\ WF_vars(SettleDone)
    /\ WF_vars(Drain)
    /\ WF_vars(Filter)
    /\ WF_vars(DelayedRead)
    /\ WF_vars(Return)

(***************************************************************************)
(* A caller of the dispatch operations (the tools of ai_agent.py and       *)
(* SimpleAIAgent.execute_command) that calls them before and after         *)
(* initialize_serial.                                                      *)
(***************************************************************************)
\* the module is imported, the agent object is made: the controller
\* reference is None; ppc = "prompt" is the caller between two of its calls
InitDispatch ==
    /\ is_open = FALSE
    /\ controller = None
    /\ prog = "library"
    /\ ppc = "prompt"
    /\ Rest

\* initialize_serial: SerialController(...) opens the port and the new
\* object is assigned, or the constructor ends the process with sys.exit(1)
InitializeSerial ==
    /\ prog = "library"
    /\ ppc = "prompt"
    /\ controller = None
    /\ \/ /\ is_open' = TRUE
          /\ controller' = Constructed
          /\ UNCHANGED <<ppc, ended>>
       \/ /\ ppc' = "exit"
          /\ ended' = "SystemExit"
          /\ UNCHANGED <<is_open, controller>>
    /\ UNCHANGED <<inbuf, outbuf, device, pc, locals, result, rx, closing,
                   prog, acts>>

\* execute_command called with any intent
DispatchIntent ==
    /\ prog = "library"
    /\ ppc = "prompt"
    /\ pc = "idle"
    /\ \E intent \in Intents : execute_command(intent)
    /\ UNCHANGED <<prog, controller, ended>>

\* one of the tools called
DispatchTool ==
    /\ prog = "library"
    /\ ppc = "prompt"
    /\ pc = "idle"
    /\ \E tool \in Tools : ToolCall(tool)
    /\ ppc' = IF controller = None THEN "not_initialized" ELSE "turn"
    /\ acts' = IF controller = None THEN 0 ELSE 1
    /\ UNCHANGED <<prog, controller, ended>>

\* the caller has the "not initialized" text and goes on
ErrorReturned ==
    /\ ppc = "not_initialized"
    /\ ppc' = "prompt"
    /\ UNCHANGED <<link, device, pc, locals, result, rx, closing, prog,
                   controller, acts, ended>>

NextDispatch ==
    \/ Transmit
    \/ EmitLine
    \/ EmitPart
    \/ EmitRest
    \/ InitializeSerial
    \/ DispatchIntent
    \/ DispatchTool
    \/ ErrorReturned
    \/ Respond
    \/ SettleDone
    \/ Drain
    \/ Filter
    \/ DelayedRead
    \/ IOError
    \/ Return

DispatchSpec == InitDispatch /\ [][NextDispatch]_vars

(***************************************************************************)
(* The classification of section 3 of the specification, as the claims     *)
(* use it: stated on its own, not through the filter's test.               *)
(***************************************************************************)
PromptGlyphs == { <<">">>, <<"$">>, <<"#">> }

SameIgnoringCase(a, b) == Upper(a) = Upper(b)

ContentLine(t, c) ==
    /\ Len(t) > 1
    /\ t \notin PromptGlyphs
    /\ ~SameIgnoringCase(t, c)

\* the call has returned without raising inside
Completed == pc = "done" /\ outcome # "error"

\* segment i of the record is a whole line that arrived in one piece in phase ph
ArrivedIn(i, ph) ==
    /\ rx[i].nl
    /\ rx[i].whole
    /\ rx[i].pieces = 1
    /\ rx[i].p1 = ph

\* segment i of the record is the device's echo of the command, in one piece
IsEchoOfCommand(i) ==
    /\ rx[i].nl
    /\ rx[i].whole
    /\ rx[i].pieces = 1
    /\ rx[i].text = command

(***************************************************************************)
(* C1.  For every command C: when the only thing the device sends during   *)
(* the call is one line echoing C, send_command(C) returns None.           *)
(* The formula states the claim; the code breaks it.                       *)
(***************************************************************************)
C1_EchoOnlyGivesNone ==
    (Completed /\ Len(rx) = 1 /\ IsEchoOfCommand(1)) => ret = None

(***************************************************************************)
(* C2.  For every command C and content line R: when the device echoes C   *)
(* and then sends exactly R (whitespace trimmed), both whole in the buffer *)
(* when the settle wait ends, send_command(C) returns R.                   *)
(* The formula states the claim; the code breaks it.                       *)
(***************************************************************************)
C2_EchoThenContentGivesContent ==
    ( /\ Completed
      /\ Len(rx) = 2
      /\ IsEchoOfCommand(1)
      /\ ArrivedIn(1, "settle")
      /\ ArrivedIn(2, "settle")
      /\ ContentLine(Strip(rx[2].text), command) )
    => ret = Some(Strip(rx[2].text))

(***************************************************************************)
(* C3.  Every value send_command returns other than None is a CONTENT      *)
(* line received during the call: longer than one character, not a prompt *)
(* glyph, not the command ignoring case.                                   *)
(* The formula states the claim; the delayed read breaks it.               *)
(***************************************************************************)
C3_ResultIsContent ==
    (pc = "done" /\ ret # None) =>
        (ContentLine(ret[1], command) /\ ~ret_src.old)

(***************************************************************************)
(* C4.  When the drained lines hold a CONTENT line, send_command returns   *)
(* the earliest of them in stream order, whatever echo and prompt lines    *)
(* come before it.                                                         *)
(***************************************************************************)
C4_FirstContentReturned ==
    Completed =>
        \A i \in 1..Len(responses) :
            ( /\ ContentLine(responses[i].text, command)
              /\ \A j \in 1..(i - 1) : ~ContentLine(responses[j].text, command) )
            => ret = Some(responses[i].text)

\* the spec's scenario: a prompt glyph was drained before the content line
C4_Witness ==
    /\ Completed
    /\ Len(responses) = 2
    /\ responses[1].text \in PromptGlyphs
    /\ ContentLine(responses[2].text, command)
    /\ ret = Some(responses[2].text)

(***************************************************************************)
(* C5.  Delayed-response fallback: when the echo of C is the only line in  *)
(* the buffer at the end of the settle wait and a content line arrives     *)
(* after the first drain, within the fallback wait, send_command(C)        *)
(* returns that content line.                                              *)
(***************************************************************************)
C5_DelayedContentReturned ==
    ( /\ Completed
      /\ Len(rx) = 2
      /\ IsEchoOfCommand(1)
      /\ ArrivedIn(1, "settle")
      /\ ArrivedIn(2, "fbwait")
      /\ ContentLine(Strip(rx[2].text), command) )
    => ret = Some(Strip(rx[2].text))

C5_Witness ==
    /\ Completed
    /\ Len(rx) = 2
    /\ IsEchoOfCommand(1)
    /\ ArrivedIn(1, "settle")
    /\ ArrivedIn(2, "fbwait")
    /\ ContentLine(Strip(rx[2].text), command)
    /\ outcome = "delayed"
    /\ ret = Some(<<"O", "K">>)

(***************************************************************************)
(* C6.  A line sitting unread in the input buffer when send_command is     *)
(* called is never the result of the call: nothing that was in the buffer  *)
(* at the call is read by it.                                              *)
(***************************************************************************)
C6_StaleNeverReturned ==
    /\ \A i \in 1..Len(inbuf) : ~inbuf[i].old
    /\ \A i \in 1..Len(responses) : ~responses[i].old
    /\ ~ret_src.old

\* a call that began with a line unread in the buffer returned a line
C6_Witness ==
    /\ pc = "done"
    /\ nstale > 0
    /\ ret # None

(***************************************************************************)
(* C7.  The value send_command returns after a failure differs from the    *)
(* value it returns for 'no response' (None).                              *)
(* The formula states the claim; the except clause breaks it.              *)
(***************************************************************************)
C7_ErrorDistinctFromNoResponse ==
    (pc = "done" /\ outcome = "error") => ret # None

(***************************************************************************)
(* C8.  Each call of send_command writes the command at most once,         *)
(* whatever the device does.                                               *)
(***************************************************************************)
C8_AtMostOneWrite == writes <= 1 /\ Len(outbuf) <= 1

\* the fallback was taken, nothing usable came, and the call gave up
C8_Witness ==
    /\ pc = "done"
    /\ outcome = "none"
    /\ WantsDelayedRead(responses, command)
    /\ writes = 1

(***************************************************************************)
(* C9.  close() is idempotent: the first call on an open connection closes *)
(* it, and every later call leaves the closed connection as it is.         *)
(***************************************************************************)
C9_CloseIdempotent ==
    /\ last_close # "none" => (~is_open /\ closed_by = 1)
    /\ ~is_open => (inbuf = <<>> /\ outbuf = <<>>)

\* close() was called on a connection that was closed already
C9_Witness ==
    /\ last_close = "noop"
    /\ ~is_open
    /\ closed_by = 1

(***************************************************************************)
(* C10.  In each entry-point program, once the connection has been opened, *)
(* every way the program can end closes the connection, exactly once.      *)
(* The formula states the claim; an interrupt between the constructor and  *)
(* the try statement breaks it.                                            *)
(***************************************************************************)
C10_ClosedOnceOnEveryExit ==
    (ppc = "exit" /\ ended # "SystemExit") => (~is_open /\ closed_by = 1)

(***************************************************************************)
(* C12.  For every command C: when the only thing the device sends during  *)
(* the call is one bare prompt glyph, send_command(C) returns None.        *)
(***************************************************************************)
C12_PromptOnlyGivesNone ==
    ( /\ Completed
      /\ Len(rx) = 1
      /\ rx[1].nl
      /\ rx[1].whole
      /\ rx[1].pieces = 1
      /\ rx[1].text \in PromptGlyphs )
    => ret = None

\* the prompt glyph was drained and the call returned None without a
\* delayed read
C12_Witness ==
    /\ Completed
    /\ Len(rx) = 1
    /\ rx[1].nl
    /\ rx[1].text \in PromptGlyphs
    /\ Len(responses) = 1
    /\ responses[1].text \in PromptGlyphs
    /\ outcome = "none"
    /\ ret = None

(***************************************************************************)
(* C13.  For every command C: when the only thing the device sends during  *)
(* the call is one line equal to C except for letter case, the line is     *)
(* taken as the echo and send_command(C) returns None.                     *)
(* The formula states the claim; the comparison of the stripped line with *)
(* the unstripped command breaks it.                                       *)
(***************************************************************************)
C13_CaseEchoGivesNone ==
    ( /\ Completed
      /\ Len(rx) = 1
      /\ rx[1].nl
      /\ rx[1].whole
      /\ rx[1].pieces = 1
      /\ rx[1].text # command
      /\ SameIgnoringCase(rx[1].text, command) )
    => ret = None

(***************************************************************************)
(* C17.  The delayed read is attempted only when the filter found no       *)
(* CONTENT line and the echo of the command is the only line that was      *)
(* drained; when any other line was drained as well, there is no delayed  *)
(* read.                                                                   *)
(* The formula states the claim; the condition of the delayed read, which  *)
(* looks at the first drained line only, breaks it.                        *)
(***************************************************************************)
C17_DelayedReadOnlyAfterEchoAlone ==
    (pc = "fbwait" \/ (pc = "done" /\ outcome = "delayed")) =>
        /\ Len(responses) = 1
        /\ SameIgnoringCase(responses[1].text, command)

(***************************************************************************)
(* C18.  The value send_command returns for a command is never a line the  *)
(* device sent in answer to an earlier command.                            *)
(* The formula states the claim; an answer that reaches the port after the *)
(* flush of the next call breaks it.                                       *)
(***************************************************************************)
C18_LateReplyNotReturned ==
    (pc = "done" /\ ret # None) => ~ret_src.late

(***************************************************************************)
(* C19.  Every line the drain collects is a complete line of the device,   *)
(* from its first character to its newline: a fragment is never collected  *)
(* or returned.                                                            *)
(* The formula states the claim; readline, which returns what has arrived  *)
(* when its timeout ends, breaks it.                                       *)
(***************************************************************************)
C19_OnlyWholeLinesCollected ==
    /\ \A i \in 1..Len(responses) : responses[i].nl /\ responses[i].whole
    /\ (pc = "done" /\ ret # None) => (ret_src.nl /\ ret_src.whole)

(***************************************************************************)
(* C11.  When the classification fails or gives none of the three          *)
(* recognised intents, the dispatch makes no facade call: the step that    *)
(* takes the unrecognised branch writes nothing to the link and starts no  *)
(* send_command, and in the simple agent no send_command was called for    *)
(* that input at all.                                                      *)
(***************************************************************************)
C11_UnrecognisedIntentNoAction ==
    [][ (ppc # "respond" /\ ppc' = "respond") =>
            /\ outbuf' = outbuf
            /\ writes' = writes
            /\ pc = "idle"
            /\ pc' = "idle"
            /\ acts' = IF prog = "simple" THEN 0 ELSE acts ]_vars

\* the simple agent answers an input it did not recognise; nothing was ever
\* written to the open port
C11_Witness ==
    /\ prog = "simple"
    /\ ppc = "respond"
    /\ is_open
    /\ acts = 0
    /\ pc = "idle"
    /\ outbuf = <<>>
    /\ devcmd = <<>>

(***************************************************************************)
(* C14.  Each facade operation is one send_command call with its fixed     *)
(* text: led_on sends "led on", led_off sends "led off", get_status sends  *)
(* "status", each written once.                                            *)
(***************************************************************************)
C14_FacadeSendsItsLiteral ==
    (prog = "main" /\ pc # "idle") =>
        /\ ppc = "script1" => command = LED_ON
        /\ ppc = "script2" => command = LED_OFF
        /\ ppc = "script3" => command = STATUS
        /\ writes = 1

\* get_status, the third call of main.py, has returned a line
C14_Witness ==
    /\ prog = "main"
    /\ ppc = "script3"
    /\ pc = "done"
    /\ command = STATUS
    /\ writes = 1
    /\ ret # None

(***************************************************************************)
(* C15.  One input at the prompt causes at most one send_command call, in  *)
(* the simple agent and in the graph agent.                                *)
(* The formula states the claim; the edge from action back to agent breaks *)
(* it.                                                                     *)
(***************************************************************************)
C15_OneTransactionPerTurn == acts <= 1

(***************************************************************************)
(* C20.  When the serial port cannot be opened, initialize_serial returns  *)
(* False, the program prints its message and returns, and nothing is ever  *)
(* written to a device.                                                    *)
(* The formula states the claim; sys.exit(1) in the constructor breaks it. *)
(***************************************************************************)
C20_OpenFailureReturnsFalse ==
    ( /\ prog \in {"simple", "ai"}
      /\ ppc = "exit"
      /\ ~is_open
      /\ last_close = "none" )
    => (ended = "return" /\ outbuf = <<>> /\ devcmd = <<>>)

(***************************************************************************)
(* C16.  send_command always terminates: whatever the device does, a       *)
(* device that keeps sending lines included, the drain loop makes a        *)
(* bounded number of reads and the call returns.                           *)
(* The formula states the claim; the drain loop, which runs for as long as *)
(* in_waiting > 0, breaks it.                                              *)
(***************************************************************************)
C16_CallTerminates == (pc = "settle") ~> (pc = "done")

(***************************************************************************)
(* C21.  While the controller reference is None, every dispatch operation  *)
(* (turn_led_on, turn_led_off, get_device_status, execute_command for any  *)
(* intent) returns the "not initialized" error text, does nothing on the   *)
(* link (no flush, no write, no read, no send_command call, no close) and  *)
(* leaves the controller reference None.                                   *)
(***************************************************************************)
C21_NoControllerNoLinkIO ==
    [][ (controller = None /\ (DispatchIntent \/ DispatchTool))
        => ( /\ ppc' = "not_initialized"
             /\ controller' = None
             /\ UNCHANGED <<is_open, inbuf, outbuf, devcmd, nlines, devrest,
                            devfresh, pc, command, responses, writes, nstale,
                            ret, outcome, ret_src, last_close, closed_by>> )
      ]_vars

\* a dispatch operation has just returned the error text with no controller
C21_Witness ==
    /\ ppc = "not_initialized"
    /\ controller = None
    /\ ~is_open
    /\ pc = "idle"
    /\ writes = 0
    /\ outbuf = <<>>

====
